---- MODULE Spec2Model ----
(***************************************************************************)
(* A model of src/main.py: the fleet supervisor (main_async) and the       *)
(* per-credential sandbox lifecycle (run_sandbox_lifecycle).               *)
(*                                                                         *)
(* One asyncio task per credential runs on a single event loop, so every   *)
(* action below is the code between two suspension points (awaits) of one  *)
(* task.  The remote provider (AsyncSandbox) and the command running in    *)
(* the sandbox are the environment: what they answer is chosen by the      *)
(* action, restricted by the scenario variables provider and workload.     *)
(***************************************************************************)
EXTENDS Integers, Sequences, FiniteSets, TLC

(* ------------------------------ bounds --------------------------------- *)

\* Longest credential list (env_keys() + --key values) given to the program.
MaxInput == 3

\* The credentials that may occur in the input list.
Credentials == {"k1", "k2", "k3"}

\* Task indexes (idx of run_sandbox_lifecycle): at most one task per credential.
LoopIds == 0 .. (Cardinality(Credentials) - 1)

(* ------------------------- program constants --------------------------- *)

MAX_CONNECTION_ATTEMPTS == 10

FAIL_COOLDOWN_MIN == 60
FAIL_COOLDOWN_MAX == 250

GRACE_MIN == 30
GRACE_MAX == 45

DEFAULT_RUN_TIME_MIN == 230
DEFAULT_RUN_TIME_MAX == 340
DEFAULT_DOWNTIME_MIN == 30
DEFAULT_DOWNTIME_MAX == 45

(* --------------------------- pure helpers ------------------------------ *)

\* random.randint(lo, hi): an integer of lo..hi, both ends included.  The
\* model draws the two ends (the whole range when it is a single point).
RandInt(lo, hi) == {x \in lo .. hi : x = lo \/ x = hi}

\* Sequences over S of length at most n.
SeqUpTo(S, n) == UNION {[1 .. m -> S] : m \in 0 .. n}

Range(s) == {s[j] : j \in DOMAIN s}

\* A faulty variant of DedupFrom: a new key is put in front of the roster.
RECURSIVE DedupFromPrepend(_, _, _)
DedupFromPrepend(rest, seen, out) ==
    IF rest = <<>> THEN out
    ELSE IF Head(rest) \in seen
         THEN DedupFromPrepend(Tail(rest), seen, out)
         ELSE DedupFromPrepend(Tail(rest), seen \cup {Head(rest)}, <<Head(rest)>> \o out)

\* main_async, lines 181-186: keep the first occurrence of every key.
RECURSIVE DedupFrom(_, _, _)
DedupFrom(rest, seen, out) ==
    IF rest = <<>> THEN out
    ELSE IF Head(rest) \in seen
         THEN DedupFrom(Tail(rest), seen, out)
         ELSE DedupFrom(Tail(rest), seen \cup {Head(rest)}, Append(out, Head(rest)))

\* A faulty variant of Dedup: the `seen` check is lost and every key is kept.
DedupKeepsAll(input) == input

Dedup(input) == DedupFrom(input, {}, <<>>)

\* A faulty variant of BadArgs: only the run-time pair is validated.
BadArgsRunOnly(a) == a.run_time_min > a.run_time_max

\* main_async, lines 176-179: the two checks that end in sys.exit.
BadArgs(a) ==
    \/ a.run_time_min > a.run_time_max
    \/ a.downtime_min > a.downtime_max

\* The command lines of parse_args (lines 83-86) the model starts from: the
\* defaults, a single-point configuration, and one bad pair of each kind.
ArgSets ==
    { [run_time_min |-> DEFAULT_RUN_TIME_MIN, run_time_max |-> DEFAULT_RUN_TIME_MAX,
       downtime_min |-> DEFAULT_DOWNTIME_MIN, downtime_max |-> DEFAULT_DOWNTIME_MAX],
      [run_time_min |-> 5, run_time_max |-> 5, downtime_min |-> 1, downtime_max |-> 1],
      [run_time_min |-> DEFAULT_RUN_TIME_MAX, run_time_max |-> DEFAULT_RUN_TIME_MIN,
       downtime_min |-> DEFAULT_DOWNTIME_MIN, downtime_max |-> DEFAULT_DOWNTIME_MAX],
      [run_time_min |-> DEFAULT_RUN_TIME_MIN, run_time_max |-> DEFAULT_RUN_TIME_MAX,
       downtime_min |-> DEFAULT_DOWNTIME_MAX, downtime_max |-> DEFAULT_DOWNTIME_MIN] }

\* A faulty variant of RetriesRemain: off by one, the last attempt is never made.
RetriesRemainEarly(a) == a < MAX_CONNECTION_ATTEMPTS - 2

\* A faulty variant of RetriesRemain: the bound is dropped, every failure is slept on.
RetriesRemainAlways(a) == TRUE

\* Line 109: whether attempts remain after a failed attempt number a.
RetriesRemain(a) == a < MAX_CONNECTION_ATTEMPTS - 1

\* Line 101: whether range(MAX_CONNECTION_ATTEMPTS) yields attempt number a.
InRange(a) == a < MAX_CONNECTION_ATTEMPTS

\* A faulty variant of GracePeriods: the upper end is one too high.
GracePeriodsWide == RandInt(GRACE_MIN, GRACE_MAX + 1)

\* Line 210: the grace periods the supervisor may draw.
GracePeriods == RandInt(GRACE_MIN, GRACE_MAX)

\* A faulty variant of FailCooldowns: the lower end is one too low.
FailCooldownsShort == RandInt(FAIL_COOLDOWN_MIN - 1, FAIL_COOLDOWN_MAX)

\* Line 111: the cooldowns a failed attempt may draw.
FailCooldowns == RandInt(FAIL_COOLDOWN_MIN, FAIL_COOLDOWN_MAX)

\* Line 122: the run durations a cycle may draw under arguments a.
RunTimes(a) == RandInt(a.run_time_min, a.run_time_max)

\* A faulty variant of Downtimes: the cooldown is drawn from the run-time bounds.
DowntimesFromRunTime(a) == RandInt(a.run_time_min, a.run_time_max)

\* Line 123: the cooldowns a cycle may draw under arguments a.
Downtimes(a) == RandInt(a.downtime_min, a.downtime_max)

\* What the command started in the sandbox does: whether it ends at all, how
\* many seconds after its start, and with which exit code.
CmdRuns ==
    {[ends |-> TRUE, at |-> t, exit_code |-> c] : t \in {1, 300}, c \in {0, 1}}
        \cup {[ends |-> FALSE, at |-> 0, exit_code |-> 0]}

\* The handle of a command whose end the task has not seen.
NoProc == [ends |-> FALSE, at |-> 0, exit_code |-> 0]

\* A faulty variant of WaitFor: the timeout is not applied.
WaitForEver(cmd, timeout) == IF cmd.ends THEN "returned" ELSE "timeout"

\* asyncio.wait_for(proc.wait(), timeout=run_time), line 141: proc.wait()
\* returns when the command has ended before the timeout, else TimeoutError.
WaitFor(cmd, timeout) ==
    IF cmd.ends /\ cmd.at < timeout THEN "returned" ELSE "timeout"

\* A faulty variant of Classify: the exit code test is inverted.
ClassifyInverted(how, exit_code) ==
    CASE how = "returned" /\ exit_code # 0 -> "Success"
      [] how = "returned" /\ exit_code = 0 -> "Failed"
      [] how = "timeout" -> "TimedOutRunning"
      [] OTHER -> "CycleError"

\* Lines 139-160: what one run cycle reports.  how is "returned" (wait_for
\* returned), "timeout" (asyncio.TimeoutError) or "raised" (any Exception).
Classify(how, exit_code) ==
    CASE how = "returned" /\ exit_code = 0 -> "Success"
      [] how = "returned" /\ exit_code # 0 -> "Failed"
      [] how = "timeout" -> "TimedOutRunning"
      [] OTHER -> "CycleError"

(* ------------------------------ state ---------------------------------- *)

VARIABLES
    argKeys,        \* env_keys() + (args.key or []), line 183
    args,           \* the parsed timing arguments, lines 83-86
    provider,       \* scenario: "up", "down" or "flaky" session creation
    workload,       \* scenario: "exit0" (always ends in time with 0) or "any"
    supPc,          \* where main_async is
    keys,           \* the deduplicated roster, line 182
    sup_i,          \* i of the launch loop, line 198
    tasks,          \* the tasks created so far, line 196
    grace_period,   \* line 210, while the supervisor sleeps on it
    nGrace,         \* how many grace periods the supervisor has slept
    pc,             \* where each lifecycle task is
    attempt,        \* attempt of the retry loop, line 101
    live,           \* live sessions of the provider, per creating task
    run_time,       \* line 122
    downtime,       \* line 123
    fail_cooldown,  \* line 111, while the task sleeps on it
    proc,           \* what wait_for saw of the command (lines 141-147)
    raised,         \* whether the run cycle left through `except Exception`
    outcome,        \* what the run cycle before the current cooldown reported
    nAttempts,      \* create() calls of the current retry loop
    nFailed,        \* failed create() calls of the current retry loop
    nFailSleeps,    \* failure cooldowns of the current retry loop
    failedBefore    \* whether an earlier retry loop of the task saw a failure

supVars == <<supPc, keys, sup_i, tasks, grace_period, nGrace>>
loopVars == <<pc, attempt, live, run_time, downtime, fail_cooldown, proc, raised, outcome,
              nAttempts, nFailed, nFailSleeps, failedBefore>>
inputVars == <<argKeys, args, provider, workload>>
vars == <<inputVars, supVars, loopVars>>

\* The runs the model explores.  With a provider that never fails and a
\* command that always ends in time with exit code 0 the fleet may hold every
\* credential, given any number of times.  With faults it holds one
\* credential, or all but one of them, each given once, under timing
\* arguments that are rejected or leave the run time a single value, which
\* keeps the interleavings of the retry loops within reach.
Explored(input, a, prov, work) ==
    \/ prov = "up" /\ work = "exit0"
    \/ Cardinality(Range(input)) <= 1
    \/ /\ Cardinality(Range(input)) < Cardinality(Credentials)
       /\ Len(input) = Cardinality(Range(input))
       /\ a.run_time_min >= a.run_time_max

Init ==
    /\ argKeys \in SeqUpTo(Credentials, MaxInput)
    /\ args \in ArgSets
    /\ provider \in {"up", "down", "flaky"}
    /\ workload \in {"exit0", "any"}
    /\ Explored(argKeys, args, provider, workload)
    /\ supPc = "start"
    /\ keys = <<>>
    /\ sup_i = 0
    /\ tasks = <<>>
    /\ grace_period = 0
    /\ nGrace = 0
    /\ pc = [j \in LoopIds |-> "none"]
    /\ attempt = [j \in LoopIds |-> 0]
    /\ live = [j \in LoopIds |-> 0]
    /\ run_time = [j \in LoopIds |-> 0]
    /\ downtime = [j \in LoopIds |-> 0]
    /\ fail_cooldown = [j \in LoopIds |-> 0]
    /\ proc = [j \in LoopIds |-> NoProc]
    /\ raised = [j \in LoopIds |-> FALSE]
    /\ outcome = [j \in LoopIds |-> "none"]
    /\ nAttempts = [j \in LoopIds |-> 0]
    /\ nFailed = [j \in LoopIds |-> 0]
    /\ nFailSleeps = [j \in LoopIds |-> 0]
    /\ failedBefore = [j \in LoopIds |-> FALSE]

(* --------------------------- the supervisor ---------------------------- *)

\* Lines 198-212, one pass of the launch loop for index n over roster ks:
\* create the task, then sleep a grace period if another key follows, else
\* leave the loop and await gather (line 214).
LaunchTask(n, ks) ==
    /\ sup_i' = n
    /\ tasks' = Append(tasks, [key |-> ks[n + 1], idx |-> n])
    /\ pc' = [pc EXCEPT ![n] = "ready"]
    /\ IF n < Len(ks) - 1
       THEN /\ \E g \in GracePeriods : grace_period' = g
            /\ nGrace' = nGrace + 1
            /\ supPc' = "grace"
       ELSE /\ grace_period' = 0
            /\ nGrace' = nGrace
            /\ supPc' = "gather"

\* main_async from its start to its first await (lines 167-212).
Startup ==
    /\ supPc = "start"
    /\ IF BadArgs(args)
       THEN /\ supPc' = "exit_args"
            /\ UNCHANGED <<keys, sup_i, tasks, grace_period, nGrace, pc>>
       ELSE LET ks == Dedup(argKeys) IN
            /\ keys' = ks
            /\ IF ks = <<>>
               THEN /\ supPc' = "exit_nokeys"
                    /\ UNCHANGED <<sup_i, tasks, grace_period, nGrace, pc>>
               ELSE LaunchTask(0, ks)
    /\ UNCHANGED <<inputVars, failedBefore, attempt, live, run_time, downtime, fail_cooldown,
                   proc, raised, outcome, nAttempts, nFailed, nFailSleeps>>

\* A faulty variant of GraceEnds: the supervisor awaits the task it launched
\* instead of sleeping, and launches the next key once that task has returned.
GraceEndsAfterTask ==
    /\ supPc = "grace"
    /\ pc[sup_i] \in {"abandoned", "returned"}
    /\ keys' = keys
    /\ LaunchTask(sup_i + 1, keys)
    /\ UNCHANGED <<inputVars, failedBefore, attempt, live, run_time, downtime, fail_cooldown,
                   proc, raised, outcome, nAttempts, nFailed, nFailSleeps>>

\* The grace sleep of line 212 ends and the loop launches the next key.  A
\* task made ready by create_task runs before any timer of 30 s or more fires.
GraceEnds ==
    /\ supPc = "grace"
    /\ \A j \in LoopIds : pc[j] # "ready"
    /\ keys' = keys
    /\ LaunchTask(sup_i + 1, keys)
    /\ UNCHANGED <<inputVars, failedBefore, attempt, live, run_time, downtime, fail_cooldown,
                   proc, raised, outcome, nAttempts, nFailed, nFailSleeps>>

\* A faulty variant of GatherDone: the supervisor returns with the first task
\* that has returned.
GatherFirstCompleted ==
    /\ supPc = "gather"
    /\ \E t \in Range(tasks) : pc[t.idx] \in {"abandoned", "returned"}
    /\ supPc' = "done"
    /\ UNCHANGED <<inputVars, keys, sup_i, tasks, grace_period, nGrace, loopVars>>

\* A faulty variant of GatherDone: the supervisor starts the abandoned keys again.
GatherRestarts ==
    /\ supPc = "gather"
    /\ \A t \in Range(tasks) : pc[t.idx] \in {"abandoned", "returned"}
    /\ pc' = [j \in LoopIds |-> IF pc[j] = "abandoned" THEN "ready" ELSE pc[j]]
    /\ UNCHANGED <<inputVars, failedBefore, supVars, attempt, live, run_time, downtime,
                   fail_cooldown, proc, raised, outcome, nAttempts, nFailed,
                   nFailSleeps>>

\* asyncio.gather (line 214) returns once every task has returned.
GatherDone ==
    /\ supPc = "gather"
    /\ \A t \in Range(tasks) : pc[t.idx] \in {"abandoned", "returned"}
    /\ supPc' = "done"
    /\ UNCHANGED <<inputVars, keys, sup_i, tasks, grace_period, nGrace, loopVars>>

(* ------------------------- one lifecycle task -------------------------- *)

\* A faulty variant of BeginRetryLoop: the attempt count of the retry loop
\* before is carried on instead of starting from 0.
BeginRetryLoopKeeps(j) ==
    /\ attempt' = [attempt EXCEPT ![j] = IF nFailed[j] > 0 THEN nFailed[j] ELSE 0]
    /\ nAttempts' = [nAttempts EXCEPT ![j] = 1]
    /\ nFailed' = [nFailed EXCEPT ![j] = 0]
    /\ nFailSleeps' = [nFailSleeps EXCEPT ![j] = 0]
    /\ pc' = [pc EXCEPT ![j] = "connecting"]

\* The start of the retry loop (lines 98-104): sbx_instance = None, attempt 0,
\* and the first AsyncSandbox.create is awaited.
BeginRetryLoop(j) ==
    /\ attempt' = [attempt EXCEPT ![j] = 0]
    /\ nAttempts' = [nAttempts EXCEPT ![j] = 1]
    /\ nFailed' = [nFailed EXCEPT ![j] = 0]
    /\ nFailSleeps' = [nFailSleeps EXCEPT ![j] = 0]
    /\ pc' = [pc EXCEPT ![j] = "connecting"]

\* The task runs for the first time.
LoopStart(j) ==
    /\ pc[j] = "ready"
    /\ BeginRetryLoop(j)
    /\ UNCHANGED <<inputVars, failedBefore, supVars, live, run_time, downtime, fail_cooldown, proc, raised, outcome>>

\* AsyncSandbox.create returns a sandbox (lines 104-106): break, draw the two
\* durations (122-123), enter the sandbox and await commands.run (126-134).
\* attempt keeps the value of the successful attempt until the next retry loop
\* sets it anew (line 101), and so do the counters of the retry loop.
ConnectOk(j) ==
    /\ pc[j] = "connecting"
    /\ provider # "down"
    /\ live' = [live EXCEPT ![j] = @ + 1]
    /\ \E rt \in RunTimes(args) : run_time' = [run_time EXCEPT ![j] = rt]
    /\ \E dt \in Downtimes(args) : downtime' = [downtime EXCEPT ![j] = dt]
    /\ pc' = [pc EXCEPT ![j] = "starting"]
    /\ UNCHANGED <<inputVars, failedBefore, supVars, attempt, nAttempts, nFailed, nFailSleeps,
                   fail_cooldown, proc, raised, outcome>>

\* A faulty variant of ConnectFail: the last failure leads to the cooldown of
\* the cycle and a new connection phase instead of the return of line 116.
ConnectFailThenCooldown(j) ==
    /\ pc[j] = "connecting"
    /\ provider # "up"
    /\ nFailed' = [nFailed EXCEPT ![j] = @ + 1]
    /\ IF RetriesRemain(attempt[j])
       THEN /\ \E c \in FailCooldowns :
                   fail_cooldown' = [fail_cooldown EXCEPT ![j] = c]
            /\ nFailSleeps' = [nFailSleeps EXCEPT ![j] = @ + 1]
            /\ pc' = [pc EXCEPT ![j] = "fail_cooldown"]
       ELSE /\ pc' = [pc EXCEPT ![j] = "cooldown"]
            /\ UNCHANGED <<fail_cooldown, nFailSleeps>>
    /\ UNCHANGED <<inputVars, failedBefore, supVars, attempt, live, run_time, downtime, proc,
                   raised, outcome, nAttempts>>

\* A faulty variant of ConnectFail: the failure is counted against every task.
ConnectFailShared(j) ==
    /\ pc[j] = "connecting"
    /\ provider # "up"
    /\ nFailed' = [k \in LoopIds |-> IF pc[k] = "none" THEN nFailed[k] ELSE nFailed[k] + 1]
    /\ IF RetriesRemain(attempt[j])
       THEN /\ \E c \in FailCooldowns :
                   fail_cooldown' = [fail_cooldown EXCEPT ![j] = c]
            /\ nFailSleeps' = [nFailSleeps EXCEPT ![j] = @ + 1]
            /\ pc' = [pc EXCEPT ![j] = "fail_cooldown"]
       ELSE /\ pc' = [pc EXCEPT ![j] = "abandoned"]
            /\ UNCHANGED <<fail_cooldown, nFailSleeps>>
    /\ UNCHANGED <<inputVars, failedBefore, supVars, attempt, live, run_time, downtime, proc, raised, outcome,
                   nAttempts>>

\* AsyncSandbox.create raises (lines 107-116): sleep a failure cooldown when
\* attempts remain, else abandon the key and return.
ConnectFail(j) ==
    /\ pc[j] = "connecting"
    /\ provider # "up"
    /\ nFailed' = [nFailed EXCEPT ![j] = @ + 1]
    /\ IF RetriesRemain(attempt[j])
       THEN /\ \E c \in FailCooldowns :
                   fail_cooldown' = [fail_cooldown EXCEPT ![j] = c]
            /\ nFailSleeps' = [nFailSleeps EXCEPT ![j] = @ + 1]
            /\ pc' = [pc EXCEPT ![j] = "fail_cooldown"]
       ELSE /\ pc' = [pc EXCEPT ![j] = "abandoned"]
            /\ UNCHANGED <<fail_cooldown, nFailSleeps>>
    /\ UNCHANGED <<inputVars, failedBefore, supVars, attempt, live, run_time, downtime, proc, raised, outcome,
                   nAttempts>>

\* The failure cooldown (line 113) ends: the next attempt of the for loop,
\* or, were the range used up with no sandbox, the return of lines 118-119.
RetryConnect(j) ==
    /\ pc[j] = "fail_cooldown"
    /\ fail_cooldown' = [fail_cooldown EXCEPT ![j] = 0]
    /\ IF InRange(attempt[j] + 1)
       THEN /\ attempt' = [attempt EXCEPT ![j] = @ + 1]
            /\ nAttempts' = [nAttempts EXCEPT ![j] = @ + 1]
            /\ pc' = [pc EXCEPT ![j] = "connecting"]
       ELSE /\ pc' = [pc EXCEPT ![j] = "returned"]
            /\ UNCHANGED <<attempt, nAttempts>>
    /\ UNCHANGED <<inputVars, failedBefore, supVars, live, run_time, downtime, proc, raised, outcome, nFailed,
                   nFailSleeps>>

\* commands.run returns the handle (line 130); get_info is awaited (136).
StartOk(j) ==
    /\ pc[j] = "starting"
    /\ pc' = [pc EXCEPT ![j] = "info"]
    /\ UNCHANGED <<inputVars, failedBefore, supVars, attempt, live, run_time, downtime,
                   fail_cooldown, proc, raised, outcome, nAttempts, nFailed,
                   nFailSleeps>>

\* get_info returns (136-137); wait_for is awaited (141).
InfoOk(j) ==
    /\ pc[j] = "info"
    /\ pc' = [pc EXCEPT ![j] = "waiting"]
    /\ UNCHANGED <<inputVars, failedBefore, supVars, attempt, live, run_time, downtime,
                   fail_cooldown, proc, raised, outcome, nAttempts, nFailed,
                   nFailSleeps>>

\* A faulty variant of EndCycle: the sandbox is not killed when the cycle is left.
EndCycleLeak(j, seen, how) ==
    /\ proc' = [proc EXCEPT ![j] = seen]
    /\ raised' = [raised EXCEPT ![j] = (how = "raised")]
    /\ outcome' = [outcome EXCEPT ![j] = Classify(how, seen.exit_code)]
    /\ pc' = [pc EXCEPT ![j] = "cooldown"]
    /\ UNCHANGED <<inputVars, failedBefore, supVars, attempt, live, run_time, downtime,
                   fail_cooldown, nAttempts, nFailed, nFailSleeps>>

\* The exit of a run cycle (lines 126, 159-163): leaving `async with` kills
\* the sandbox, the cycle's report is printed, and the cooldown is slept.
\* seen is what wait_for saw of the command, how is how the cycle was left.
EndCycle(j, seen, how) ==
    /\ live' = [live EXCEPT ![j] = @ - 1]
    /\ proc' = [proc EXCEPT ![j] = seen]
    /\ raised' = [raised EXCEPT ![j] = (how = "raised")]
    /\ outcome' = [outcome EXCEPT ![j] = Classify(how, seen.exit_code)]
    /\ pc' = [pc EXCEPT ![j] = "cooldown"]
    /\ UNCHANGED <<inputVars, failedBefore, supVars, attempt, run_time, downtime, fail_cooldown,
                   nAttempts, nFailed, nFailSleeps>>

\* wait_for ends (lines 141-157): the command ended in time, or the timeout.
WaitEnds(j) ==
    /\ pc[j] = "waiting"
    /\ \E cmd \in CmdRuns :
         /\ workload = "exit0" =>
                (WaitFor(cmd, run_time[j]) = "returned" /\ cmd.exit_code = 0)
         /\ EndCycle(j, cmd, WaitFor(cmd, run_time[j]))

\* A faulty variant of CycleRaises: the exception is not caught and ends the task.
CycleRaisesUncaught(j) ==
    /\ pc[j] \in {"starting", "info", "waiting"}
    /\ workload = "any"
    /\ live' = [live EXCEPT ![j] = @ - 1]
    /\ raised' = [raised EXCEPT ![j] = TRUE]
    /\ pc' = [pc EXCEPT ![j] = "returned"]
    /\ UNCHANGED <<inputVars, failedBefore, supVars, attempt, run_time, downtime, fail_cooldown,
                   proc, outcome, nAttempts, nFailed, nFailSleeps>>

\* commands.run, get_info or proc.wait raises an Exception (line 159).
CycleRaises(j) ==
    /\ pc[j] \in {"starting", "info", "waiting"}
    /\ workload = "any"
    /\ EndCycle(j, NoProc, "raised")

\* A faulty variant of CooldownEnds: the next iteration runs its workload on
\* the sandbox of the last one instead of connecting anew.
CooldownEndsReuses(j) ==
    /\ pc[j] = "cooldown"
    /\ pc' = [pc EXCEPT ![j] = "starting"]
    /\ outcome' = [outcome EXCEPT ![j] = "none"]
    /\ proc' = [proc EXCEPT ![j] = NoProc]
    /\ raised' = [raised EXCEPT ![j] = FALSE]
    /\ UNCHANGED <<inputVars, failedBefore, supVars, live, fail_cooldown, run_time,
                   downtime, attempt, nAttempts, nFailed, nFailSleeps>>

\* The cooldown (line 163) ends: the next iteration of `while True`.
CooldownEnds(j) ==
    /\ pc[j] = "cooldown"
    /\ BeginRetryLoop(j)
    /\ outcome' = [outcome EXCEPT ![j] = "none"]
    /\ proc' = [proc EXCEPT ![j] = NoProc]
    /\ raised' = [raised EXCEPT ![j] = FALSE]
    /\ run_time' = [run_time EXCEPT ![j] = 0]
    /\ downtime' = [downtime EXCEPT ![j] = 0]
    /\ failedBefore' = [failedBefore EXCEPT ![j] = @ \/ nFailed[j] > 0]
    /\ UNCHANGED <<inputVars, supVars, live, fail_cooldown>>

LoopStep(j) ==
    \/ LoopStart(j)
    \/ ConnectOk(j)
    \/ ConnectFail(j)
    \/ RetryConnect(j)
    \/ StartOk(j)
    \/ InfoOk(j)
    \/ WaitEnds(j)
    \/ CycleRaises(j)
    \/ CooldownEnds(j)

Supervisor == Startup \/ GraceEnds \/ GatherDone

Next == Supervisor \/ \E j \in LoopIds : LoopStep(j)

Spec == Init /\ [][Next]_vars

\* The event loop runs every task that can run, and every create, sleep and
\* wait of the model ends: each task and the supervisor take their next step.
Fairness == WF_vars(Supervisor) /\ \A j \in LoopIds : WF_vars(LoopStep(j))

\* The runs explored for the properties of infinite behaviours: the fleets of
\* Init without faults, and single credentials with them, all with timing
\* arguments that are rejected or leave the draws a single value.
FairInit ==
    /\ Init
    /\ \/ BadArgs(args)
       \/ (args.run_time_min = args.run_time_max /\ args.downtime_min = args.downtime_max)
    /\ \/ provider = "up" /\ workload = "exit0"
       \/ Cardinality(Range(argKeys)) <= 1

FairSpec == FairInit /\ [][Next]_vars /\ Fairness

(* ------------------------ the external interrupt ----------------------- *)

\* A faulty variant of Interrupt: a cancelled task leaves its sandbox alive.
InterruptLeaksSessions ==
    /\ supPc \in {"grace", "gather"}
    /\ supPc' = "interrupted"
    /\ pc' = [j \in LoopIds |->
                 IF pc[j] \in {"none", "abandoned", "returned"} THEN pc[j] ELSE "cancelled"]
    /\ UNCHANGED <<inputVars, keys, sup_i, tasks, grace_period, nGrace, attempt, live,
                   run_time, downtime, fail_cooldown, proc, raised, outcome, nAttempts,
                   nFailed, nFailSleeps, failedBefore>>

\* KeyboardInterrupt while asyncio.run is in main_async (lines 216-220).
\* asyncio.run cancels main_async and every task still pending and runs them
\* to their end before the handler of line 219 prints and the process ends.
\* CancelledError is raised at the await the task is suspended at; it is no
\* Exception, so neither line 107 nor line 159 catches it, and on its way out
\* of `async with` (line 126) the sandbox is killed.  A task that has
\* returned is left alone and a credential not yet launched stays so.
Interrupt ==
    /\ supPc \in {"grace", "gather"}
    /\ supPc' = "interrupted"
    /\ pc' = [j \in LoopIds |->
                 IF pc[j] \in {"none", "abandoned", "returned"} THEN pc[j] ELSE "cancelled"]
    /\ live' = [j \in LoopIds |->
                   IF pc[j] \in {"starting", "info", "waiting"} THEN live[j] - 1 ELSE live[j]]
    /\ UNCHANGED <<inputVars, keys, sup_i, tasks, grace_period, nGrace, attempt,
                   run_time, downtime, fail_cooldown, proc, raised, outcome, nAttempts,
                   nFailed, nFailSleeps, failedBefore>>

NextInt == Next \/ Interrupt

\* The program under an interrupt that may arrive at any await, from the
\* initial states of FairInit.
IntSpec == FairInit /\ [][NextInt]_vars

TypeOK ==
    /\ supPc \in {"start", "exit_args", "exit_nokeys", "grace", "gather", "done",
                 "interrupted"}
    /\ pc \in [LoopIds -> {"none", "ready", "connecting", "fail_cooldown", "abandoned",
                           "returned", "starting", "info", "waiting", "cooldown",
                           "cancelled"}]
    /\ attempt \in [LoopIds -> 0 .. (MAX_CONNECTION_ATTEMPTS - 1)]
    /\ live \in [LoopIds -> 0 .. 1]
    /\ failedBefore \in [LoopIds -> BOOLEAN]

(* ------------------------------ claims --------------------------------- *)

RECURSIVE Total(_, _)
Total(f, S) ==
    IF S = {} THEN 0
    ELSE LET x == CHOOSE y \in S : TRUE IN f[x] + Total(f, S \ {x})

\* The tasks that were given credential k, and the sessions live for k.
Holders(k) == {t.idx : t \in {u \in Range(tasks) : u.key = k}}
LiveFor(k) == Total(live, Holders(k))

RunPhases == {"starting", "info", "waiting"}

\* C1: at most one session is live per credential, whatever the input list
\* (duplicates included) and the interleaving, and no two tasks hold the
\* same credential.
C1_OneLiveSessionPerCredential ==
    /\ \A k \in Credentials : LiveFor(k) <= 1
    /\ \A k \in Credentials : Cardinality(Holders(k)) <= 1
    /\ \A j \in LoopIds : live[j] <= 1

\* C1 witness: the input repeats a credential and two tasks hold a live
\* session each.
C1_Witness ==
    /\ Len(argKeys) > Len(keys)
    /\ \E a, b \in LoopIds : a # b /\ live[a] = 1 /\ live[b] = 1

\* C2: a task is abandoned only with exactly MAX_CONNECTION_ATTEMPTS attempts
\* made in the current retry loop, all of them failed; no retry loop makes an
\* 11th attempt.
C2_AbandonedOnlyAfterTenFailures ==
    \A j \in LoopIds :
        /\ nAttempts[j] <= 10
        /\ nFailed[j] <= nAttempts[j]
        /\ pc[j] = "abandoned" => (nAttempts[j] = 10 /\ nFailed[j] = 10)
        /\ pc[j] = "returned" => FALSE

\* C2 witness: a key is abandoned under a provider that can also succeed.
C2_Witness ==
    /\ provider = "flaky"
    /\ \E j \in LoopIds : pc[j] = "abandoned" /\ nFailed[j] = 10

\* C3: abandonment is terminal: no step changes anything of an abandoned task.
C3_AbandonedIsTerminal ==
    [][\A j \in LoopIds :
          pc[j] = "abandoned" =>
              /\ pc'[j] = "abandoned"
              /\ live'[j] = live[j]
              /\ attempt'[j] = attempt[j]
              /\ nAttempts'[j] = nAttempts[j]
              /\ nFailed'[j] = nFailed[j]
              /\ nFailSleeps'[j] = nFailSleeps[j]
              /\ outcome'[j] = outcome[j]]_vars

\* C3 witness: one task is abandoned, the supervisor is done or awaiting, and
\* another task is in a run cycle.
C3_Witness ==
    \E a, b \in LoopIds :
        /\ pc[a] = "abandoned"
        /\ pc[b] \in RunPhases
        /\ supPc = "gather"

\* The scenario of C4: one credential, session creation always fails.
OneKeyProviderDown ==
    provider = "down" /\ Cardinality(Range(argKeys)) = 1 /\ ~BadArgs(args)

\* C4: with one credential and a provider that always fails, the task ends
\* abandoned after exactly 10 failed attempts and 9 failure cooldowns, the
\* supervisor returns, and no session and no run cycle ever exists.
C4_AllFailTerminates ==
    OneKeyProviderDown =>
        /\ [](/\ live[0] = 0
              /\ pc[0] \notin RunPhases \cup {"cooldown", "returned"}
              /\ nFailed[0] <= 10
              /\ nFailSleeps[0] <= 9
              /\ pc[0] = "fail_cooldown" => nFailSleeps[0] = nFailed[0]
              /\ pc[0] = "connecting" => nFailSleeps[0] = nFailed[0])
        /\ <>[](/\ pc[0] = "abandoned"
                /\ supPc = "done"
                /\ nAttempts[0] = 10
                /\ nFailed[0] = 10
                /\ nFailSleeps[0] = 9)

\* C4 witness: the single task is abandoned and the supervisor has returned.
C4_Witness ==
    /\ OneKeyProviderDown
    /\ pc[0] = "abandoned"
    /\ nFailed[0] = 10
    /\ nFailSleeps[0] = 9
    /\ supPc = "done"

\* The scenario of C5: three credentials, creation always succeeds, the
\* command always ends in time with exit code 0.
ThreeKeysAllWell ==
    /\ provider = "up"
    /\ workload = "exit0"
    /\ Cardinality(Range(argKeys)) = 3
    /\ ~BadArgs(args)

\* C5: in that scenario no task is ever abandoned, and each of the three
\* tasks again and again connects, then reports Success, then cools down.
C5_HappyFleetCyclesForever ==
    ThreeKeysAllWell =>
        /\ [](\A j \in LoopIds :
                 /\ pc[j] \notin {"abandoned", "returned", "fail_cooldown"}
                 /\ outcome[j] \in {"none", "Success"})
        /\ \A j \in LoopIds :
              /\ []<>(pc[j] = "starting" /\ live[j] = 1)
              /\ (pc[j] = "starting") ~> (pc[j] = "cooldown" /\ outcome[j] = "Success")
              /\ (pc[j] = "cooldown") ~> (pc[j] = "connecting")
              /\ (pc[j] = "connecting") ~> (pc[j] = "starting")

\* C5 witness: the three tasks cool down after a Success each.
C5_Witness ==
    /\ ThreeKeysAllWell
    /\ \A j \in LoopIds : pc[j] = "cooldown" /\ outcome[j] = "Success"

\* C6: no session is live for a task that is cooling down or connecting:
\* whatever the run cycle reported, the sandbox was killed before the
\* cooldown.
C6_NoSessionOutsideRunCycle ==
    \A t \in Range(tasks) :
        pc[t.idx] \notin RunPhases => (live[t.idx] = 0 /\ LiveFor(t.key) = 0)

\* C6 witness: two tasks cool down, one after an exception and one after the
\* timeout, with no live session.
C6_Witness ==
    \E a, b \in LoopIds :
        /\ pc[a] = "cooldown" /\ outcome[a] = "CycleError" /\ live[a] = 0
        /\ pc[b] = "cooldown" /\ outcome[b] = "TimedOutRunning" /\ live[b] = 0

\* C7: an exception in a run cycle takes the task to the cooldown, with the
\* session killed, and every cooldown is left for a new retry loop.
C7_CycleErrorIsContained ==
    [][\A j \in LoopIds :
          /\ (raised'[j] /\ ~raised[j]) =>
                 (pc[j] \in RunPhases /\ pc'[j] = "cooldown" /\ live'[j] = 0)
          /\ (pc[j] = "cooldown" /\ pc'[j] # "cooldown") =>
                 (pc'[j] = "connecting" /\ attempt'[j] = 0 /\ nAttempts'[j] = 1
                  /\ nFailed'[j] = 0)]_vars

\* C7 witness: a task cools down after an exception of its run cycle.
C7_Witness ==
    \E j \in LoopIds : pc[j] = "cooldown" /\ raised[j] /\ outcome[j] = "CycleError"

\* Whether the command of task j had ended before the timeout of its wait.
EndedInTime(j) == proc[j].ends /\ proc[j].at < run_time[j]

\* C8: the report of a run cycle is Success iff the command ended before the
\* timeout with exit code 0, Failed iff it ended before it with another exit
\* code, TimedOutRunning iff the timeout came first; a timeout is not an error.
C8_OutcomeClassification ==
    \A j \in LoopIds :
        pc[j] = "cooldown" =>
            /\ outcome[j] = "Success" <=>
                   (~raised[j] /\ EndedInTime(j) /\ proc[j].exit_code = 0)
            /\ outcome[j] = "Failed" <=>
                   (~raised[j] /\ EndedInTime(j) /\ proc[j].exit_code # 0)
            /\ outcome[j] = "TimedOutRunning" <=> (~raised[j] /\ ~EndedInTime(j))
            /\ outcome[j] = "CycleError" <=> raised[j]

\* C8 witness: one task reports Failed, another reports TimedOutRunning for a
\* command that ends only after the timeout.
C8_Witness ==
    \E a, b \in LoopIds :
        /\ pc[a] = "cooldown" /\ outcome[a] = "Failed"
        /\ pc[b] = "cooldown" /\ outcome[b] = "TimedOutRunning" /\ proc[b].ends

\* Where credential k occurs first in list s.
FirstIndex(s, k) == CHOOSE m \in DOMAIN s : s[m] = k /\ \A l \in 1 .. (m - 1) : s[l] # k

\* C9: the tasks are launched one per unique credential of the input, in the
\* order in which the credentials are first seen, and all of them once the
\* launch loop is over.
C9_OneLoopPerUniqueCredential ==
    /\ \A n \in DOMAIN tasks :
           /\ tasks[n].idx = n - 1
           /\ tasks[n].key \in Range(argKeys)
    /\ \A a, b \in DOMAIN tasks :
           a < b => /\ tasks[a].key # tasks[b].key
                    /\ FirstIndex(argKeys, tasks[a].key) < FirstIndex(argKeys, tasks[b].key)
    /\ Len(tasks) <= Cardinality(Range(argKeys))
    /\ supPc \in {"gather", "done"} => Len(tasks) = Cardinality(Range(argKeys))
    /\ \A j \in LoopIds : pc[j] # "none" <=> j < Len(tasks)

\* C9 witness: three keys given, two of them the same, two tasks launched.
C9_Witness ==
    /\ supPc = "gather"
    /\ Len(argKeys) = 3
    /\ Len(tasks) = 2
    /\ argKeys[1] = argKeys[2]

\* C10: a grace period is slept after every launch but the last, N-1 in all,
\* each of 30..45 seconds, and tasks are launched in index order.
C10_StaggeredLaunch ==
    /\ supPc \in {"start", "exit_args", "exit_nokeys"} => (nGrace = 0 /\ tasks = <<>>)
    /\ supPc = "grace" =>
           /\ nGrace = Len(tasks)
           /\ Len(tasks) < Len(keys)
           /\ grace_period \in 30 .. 45
    /\ supPc \in {"gather", "done"} =>
           /\ nGrace = Len(keys) - 1
           /\ Len(tasks) = Len(keys)
    /\ \A a, b \in LoopIds : (a < b /\ pc[b] # "none") => pc[a] \notin {"none", "ready"}

\* C10 witness: three tasks launched with two grace periods in between.
C10_Witness ==
    /\ supPc = "gather"
    /\ Len(tasks) = 3
    /\ nGrace = 2

\* C11: with a run-time or downtime minimum above its maximum, or with no
\* credential left after deduplication, the process exits with an error
\* before any task is launched and before any connection attempt.
C11_BadInputExitsBeforeLaunch ==
    LET badPair == \/ args.run_time_min > args.run_time_max
                   \/ args.downtime_min > args.downtime_max
        noKeys == Range(argKeys) = {}
        nothingLaunched ==
            /\ tasks = <<>>
            /\ \A j \in LoopIds : pc[j] = "none" /\ nAttempts[j] = 0 /\ live[j] = 0
    IN  /\ badPair => (supPc \in {"start", "exit_args"} /\ nothingLaunched)
        /\ (noKeys /\ ~badPair) => (supPc \in {"start", "exit_nokeys"} /\ nothingLaunched)
        /\ supPc = "exit_args" => badPair
        /\ supPc = "exit_nokeys" => noKeys

\* C11 witness: a bad downtime pair with credentials given ends in the exit.
C11_Witness ==
    /\ supPc = "exit_args"
    /\ args.downtime_min > args.downtime_max
    /\ args.run_time_min <= args.run_time_max
    /\ argKeys # <<>>

\* Everything task j holds: its position, its locals, its session and its
\* counters.
LoopState(j) ==
    <<pc[j], attempt[j], live[j], run_time[j], downtime[j], fail_cooldown[j],
      proc[j], raised[j], outcome[j], nAttempts[j], nFailed[j], nFailSleeps[j],
      failedBefore[j]>>

\* C12: failures are isolated per credential.  A step in which one task
\* fails an attempt, ends a cycle in error or is abandoned, as any step that
\* changes what one task holds, leaves the position, attempt counter, session
\* and locals of every other task as they were, and the set of tasks too.
C12_FailuresAreIsolated ==
    [][\A j, k \in LoopIds :
          (j # k /\ LoopState(j)' # LoopState(j))
              => /\ LoopState(k)' = LoopState(k)
                 /\ pc[j] # "none" => (tasks' = tasks /\ supPc' = supPc)]_vars

\* C12 witness: one task sleeps off a failed attempt while another, with no
\* failure counted against it, runs its workload.
C12_Witness ==
    \E a, b \in LoopIds :
        /\ a # b
        /\ pc[a] = "fail_cooldown"
        /\ nFailed[a] >= 2
        /\ pc[b] \in RunPhases
        /\ nFailed[b] = 0

\* C13: every connection phase starts with a fresh retry budget.  A task that
\* enters the phase, for the first time or after a cooldown, starts at
\* attempt 0 with nothing counted, whatever failed before; while it connects
\* the failures counted are those of this phase, and it is abandoned with
\* exactly MAX_CONNECTION_ATTEMPTS of them.
C13_FreshRetryBudget ==
    [][\A j \in LoopIds :
          /\ (pc[j] \in {"ready", "cooldown"} /\ pc'[j] = "connecting")
                 => /\ attempt'[j] = 0
                    /\ nAttempts'[j] = 1
                    /\ nFailed'[j] = 0
                    /\ nFailSleeps'[j] = 0
          /\ pc'[j] = "connecting"
                 => /\ nFailed'[j] = attempt'[j]
                    /\ nAttempts'[j] = attempt'[j] + 1
                    /\ MAX_CONNECTION_ATTEMPTS - nFailed'[j] >= 1
          /\ pc'[j] = "abandoned" => nFailed'[j] = MAX_CONNECTION_ATTEMPTS
          /\ pc'[j] = "starting" => nFailed'[j] < MAX_CONNECTION_ATTEMPTS]_vars

\* C13 witness: a task whose earlier connection phase saw failures is at the
\* first attempt of a new phase with nothing counted.
C13_Witness ==
    \E j \in LoopIds :
        /\ failedBefore[j]
        /\ pc[j] = "connecting"
        /\ attempt[j] = 0
        /\ nFailed[j] = 0

\* The lifecycle state of task j: the retry loop with its failure cooldowns
\* is "connecting", the body of `async with` is "running".
Phase(j) ==
    CASE pc[j] \in {"connecting", "fail_cooldown"} -> "connecting"
      [] pc[j] \in RunPhases -> "running"
      [] pc[j] = "cooldown" -> "cooling-down"
      [] pc[j] = "abandoned" -> "abandoned"
      [] pc[j] \in {"none", "ready"} -> "unstarted"
      [] OTHER -> "returned"

\* The changes of lifecycle state a task may make.
Transitions ==
    { <<"unstarted", "connecting">>, <<"connecting", "running">>,
      <<"running", "cooling-down">>, <<"cooling-down", "connecting">>,
      <<"connecting", "abandoned">> }

\* C14: a task moves only from connecting to running, running to cooling
\* down, cooling down to connecting and connecting to abandoned.  It runs a
\* workload only on the session of an attempt that succeeded in the current
\* iteration, and cools down only once the run cycle is resolved and its
\* session gone.
C14_LifecycleTransitions ==
    [][\A j \in LoopIds :
          /\ Phase(j)' # Phase(j) => <<Phase(j), Phase(j)'>> \in Transitions
          /\ Phase(j)' = "running"
                 => /\ live'[j] = 1
                    /\ nAttempts'[j] = nFailed'[j] + 1
                    /\ outcome'[j] = "none"
          /\ (Phase(j)' = "running" /\ Phase(j) # "running")
                 => (pc[j] = "connecting" /\ live[j] = 0)
          /\ Phase(j)' = "cooling-down"
                 => /\ outcome'[j] \in {"Success", "Failed", "TimedOutRunning", "CycleError"}
                    /\ live'[j] = 0]_vars

\* C14 witness: a task that connected after failures, ran and cooled down
\* is abandoned in a later connection phase.
C14_Witness ==
    \E j \in LoopIds :
        /\ failedBefore[j]
        /\ pc[j] = "abandoned"

C16_FailureCooldownOnlyBetweenAttempts ==
    [][\A j \in LoopIds :
          /\ (pc[j] = "connecting" /\ nFailed'[j] = nFailed[j] + 1)
                 => IF attempt[j] < MAX_CONNECTION_ATTEMPTS - 1
                    THEN /\ pc'[j] = "fail_cooldown"
                         /\ nFailSleeps'[j] = nFailSleeps[j] + 1
                    ELSE /\ pc'[j] = "abandoned"
                         /\ nFailSleeps'[j] = nFailSleeps[j]
          /\ (pc[j] = "connecting" /\ nFailed'[j] = nFailed[j])
                 => (pc'[j] \in {"connecting", "starting"} /\ nFailSleeps'[j] = nFailSleeps[j])
          /\ nFailSleeps'[j] > nFailSleeps[j]
                 => (pc[j] = "connecting" /\ nFailed'[j] = nFailed[j] + 1)
          /\ IF pc'[j] = "fail_cooldown"
             THEN fail_cooldown'[j] \in FAIL_COOLDOWN_MIN .. FAIL_COOLDOWN_MAX
             ELSE fail_cooldown'[j] = 0
          /\ pc'[j] \in {"connecting", "fail_cooldown", "abandoned", "starting"}
                 => (nFailSleeps'[j] <= MAX_CONNECTION_ATTEMPTS - 1
                     /\ nFailSleeps'[j] = IF pc'[j] = "fail_cooldown"
                                          THEN attempt'[j] + 1
                                          ELSE IF pc'[j] = "abandoned"
                                               THEN attempt'[j]
                                               ELSE nFailed'[j])]_vars

\* C16 witness: the ninth and last failure cooldown of a retry loop, of the
\* longest duration.
C16_Witness ==
    \E j \in LoopIds :
        /\ pc[j] = "fail_cooldown"
        /\ fail_cooldown[j] = FAIL_COOLDOWN_MAX
        /\ nFailSleeps[j] = MAX_CONNECTION_ATTEMPTS - 1

\* The positions of one iteration after its connection: the run cycle and
\* the cooldown that follows it.
CyclePhases == RunPhases \cup {"cooldown"}

\* C17: for every successful connection one run duration is drawn within
\* [run_time_min, run_time_max] and one cooldown within [downtime_min,
\* downtime_max], for all validated bounds, equal ones included; the two
\* values stay as drawn until the iteration ends.
C17_DurationsWithinBounds ==
    [][\A j \in LoopIds :
          /\ (pc[j] = "connecting" /\ pc'[j] = "starting")
                 => /\ run_time'[j] \in args.run_time_min .. args.run_time_max
                    /\ downtime'[j] \in args.downtime_min .. args.downtime_max
          /\ (pc[j] \in CyclePhases /\ pc'[j] \in CyclePhases)
                 => (run_time'[j] = run_time[j] /\ downtime'[j] = downtime[j])
          /\ pc'[j] \in CyclePhases
                 => /\ args.run_time_min <= run_time'[j]
                    /\ run_time'[j] <= args.run_time_max
                    /\ args.downtime_min <= downtime'[j]
                    /\ downtime'[j] <= args.downtime_max
                    /\ args.run_time_min = args.run_time_max => run_time'[j] = args.run_time_min
                    /\ args.downtime_min = args.downtime_max => downtime'[j] = args.downtime_min
          /\ pc'[j] \in CyclePhases => ~BadArgs(args)]_vars

\* C17 witness: under bounds that leave a choice a task cools down after a
\* cycle of the longest run time, for the shortest downtime.
C17_Witness ==
    \E j \in LoopIds :
        /\ pc[j] = "cooldown"
        /\ args.run_time_min < args.run_time_max
        /\ args.downtime_min < args.downtime_max
        /\ run_time[j] = args.run_time_max
        /\ downtime[j] = args.downtime_min

\* C18: a session is used for at most one workload start and is torn down
\* exactly once, by the task that created it.  A task's session count
\* changes only when that task creates a session on a successful attempt and
\* when it leaves the run cycle; a workload starts only on a session created
\* in the same step, a task leaving its run cycle leaves no session behind,
\* and no step of one task touches the session of another.
C18_OneWorkloadOneTeardownPerSession ==
    [][\A j \in LoopIds :
          /\ live'[j] \in {0, 1}
          /\ (live'[j] = 1) <=> (pc'[j] \in RunPhases)
          /\ live'[j] # live[j]
                 => \/ /\ pc[j] = "connecting" /\ pc'[j] = "starting"
                       /\ live[j] = 0 /\ live'[j] = 1
                    \/ /\ pc[j] \in RunPhases /\ pc'[j] = "cooldown"
                       /\ live[j] = 1 /\ live'[j] = 0
          /\ (pc'[j] = "starting" /\ pc[j] # "starting")
                 => (pc[j] = "connecting" /\ live[j] = 0 /\ live'[j] = 1)
          /\ (pc[j] \in RunPhases /\ pc'[j] \notin RunPhases)
                 => (live[j] = 1 /\ live'[j] = 0)
          /\ live'[j] # live[j]
                 => \A k \in LoopIds \ {j} : live'[k] = live[k] /\ pc'[k] = pc[k]]_vars

\* C18 witness: one task has torn down the session of a finished workload
\* while another task holds a session of its own.
C18_Witness ==
    \E j, k \in LoopIds :
        /\ j # k
        /\ pc[j] = "cooldown"
        /\ outcome[j] = "Success"
        /\ live[j] = 0
        /\ live[k] = 1

\* C19: with every task launched the supervisor only awaits them.  It can
\* complete exactly when every launched task has been abandoned; while one
\* is not, it neither completes nor cancels a task, and once it has completed
\* every credential was launched and every task is abandoned.
C19_SupervisorAwaitsAllLoops ==
    LET allAbandoned == \A t \in Range(tasks) : pc[t.idx] = "abandoned"
    IN  /\ supPc = "gather" =>
               /\ Len(tasks) = Len(keys)
               /\ (ENABLED GatherDone) <=> allAbandoned
        /\ supPc = "done" => (Len(tasks) = Len(keys) /\ allAbandoned)
        /\ supPc \in {"gather", "done"} =>
               \A j \in LoopIds : pc[j] \notin {"cancelled", "returned", "none"} \/ j >= Len(tasks)

\* C19 witness: the supervisor has completed after both of two tasks were
\* abandoned.
C19_Witness ==
    /\ supPc = "done"
    /\ Len(tasks) = 2
    /\ \A t \in Range(tasks) : pc[t.idx] = "abandoned" /\ nFailed[t.idx] = MAX_CONNECTION_ATTEMPTS

\* C20: a launched task runs as soon as the supervisor yields.  When task
\* i+1 is launched every earlier task has begun its first connection
\* attempt, and while the supervisor sleeps a grace period with a credential
\* still to launch, the next launch is enabled as soon as the task launched
\* last has started, whatever the earlier tasks are doing.
C20_LoopsStartBeforeNextLaunch ==
    /\ [](supPc = "grace" =>
             /\ sup_i + 1 < Len(keys)
             /\ Len(tasks) = sup_i + 1
             /\ (ENABLED GraceEnds) <=> (\A j \in LoopIds : pc[j] # "ready"))
    /\ [][\A b \in LoopIds :
             (pc[b] = "none" /\ pc'[b] # "none")
                 => /\ pc'[b] = "ready"
                    /\ tasks' = Append(tasks, [key |-> keys'[b + 1], idx |-> b])
                    /\ \A a \in LoopIds :
                           a < b => (pc[a] \notin {"none", "ready"} /\ nAttempts[a] >= 1)]_vars

\* C20 witness: the first task has run a workload and cools down while the
\* supervisor still sleeps the first grace period, two credentials unlaunched.
C20_Witness ==
    /\ supPc = "grace"
    /\ Len(keys) = 3
    /\ pc[0] = "cooldown"
    /\ outcome[0] = "Success"
    /\ pc[1] = "none"
    /\ pc[2] = "none"

====
